---- MODULE Spec2Model ----
(***************************************************************************)
(* Model of src/tic_tac_toe_database/init_schema.js: initializeSchema(db)  *)
(* issues nine awaited database calls (three createCollection with a       *)
(* $jsonSchema validator, six createIndex) and then prints a completion    *)
(* message.  The database is the state; the validators and the indexes     *)
(* the script installs decide the fate of the inserts a client attempts.   *)
(*                                                                         *)
(* The db handle is a parameter of the script, so two behaviours of the    *)
(* server behind it are left open and fixed at the start of a behaviour:   *)
(* whether createCollection accepts a collection that already exists with  *)
(* the same options, and whether its $jsonSchema parser accepts the empty  *)
(* "required" array of line 31.                                            *)
(***************************************************************************)
EXTENDS Integers, Sequences, FiniteSets, TLC

VARIABLES
    createIfAbsent, \* server semantics of createCollection on an existing name
    emptyRequiredOk,\* the server's schema parser accepts "required": []
    collections,    \* set of [name, validator]: the collections that exist
    indexes,        \* set of [coll, key, unique]: the secondary indexes
    users,          \* documents of collection users, in insertion order
    games,          \* documents of collection games
    leaderboards,   \* documents of collection leaderboards
    pc,             \* 0: no run in progress; k in 1..9: call k is next; 10: print
    runs,           \* number of runs of initializeSchema started so far
    faulty,         \* the current run's connection may lose a call or its answer
    status,         \* "none", "running", "done", "failed": the latest run
    prevStatus,     \* status of the run before the latest one
    prevLog,        \* log of the run before the latest one
    log,            \* the latest run's calls, in issue order: [call, ok]
    printed,        \* how many times the completion message was printed
    afterFirst,     \* [collections, indexes] when the first run completed
    last            \* the latest insert attempt: [coll, doc, ok, before]

vars == <<createIfAbsent, emptyRequiredOk, collections, indexes, users, games,
          leaderboards, pc, runs, faulty, status, prevStatus, prevLog, log, printed,
          afterFirst, last>>

dbVars == <<collections, indexes>>
serverVars == <<createIfAbsent, emptyRequiredOk>>
docVars == <<users, games, leaderboards, last>>

(***************************************************************************)
(* Bounds of the exploration.                                              *)
(***************************************************************************)
MaxRuns == 2
MaxDocs == 2

(***************************************************************************)
(* BSON values.  A value carries its BSON type; a document is a record     *)
(* from field names to values, an absent field being absent from DOMAIN.   *)
(* Strings that the schema matches against a pattern are sequences of      *)
(* one-character strings.  A double is held in tenths.                     *)
(***************************************************************************)
Str(s) == [bson |-> "string", s |-> s]
Int32(i) == [bson |-> "int", i |-> i]
Dbl(t) == [bson |-> "double", tenths |-> t]
Date(t) == [bson |-> "date", t |-> t]
Oid(n) == [bson |-> "objectId", id |-> n]
Null == [bson |-> "null"]
Obj(r) == [bson |-> "object", o |-> r]
Arr(a) == [bson |-> "array", a |-> a]

Has(d, f) == f \in DOMAIN d

\* "required": [...]: every listed field is present.
Required(d, fields) == \A f \in fields : Has(d, f)

\* "properties": {f: {bsonType: types}}: applies only when f is present.
TypeIf(d, f, types) == Has(d, f) => d[f].bson \in types

(***************************************************************************)
(* pattern: "^.+@.+\\..+$" (line 23): at least one character, an "@", at   *)
(* least one character, a ".", at least one character.                     *)
(***************************************************************************)
EmailPattern(s) ==
    \E i \in 1..Len(s), j \in 1..Len(s) :
        /\ i >= 2
        /\ s[i] = "@"
        /\ j >= i + 2
        /\ s[j] = "."
        /\ j <= Len(s) - 1

\* Numbers the schemas state.
PlayersMinItems == 2
PlayersMaxItems == 2
RowMinimum == 0
RowMaximum == 2
ColMinimum == 0
ColMaximum == 2
CounterMinimum == 0
WinRateMinimumTenths == 0
WinRateMaximumTenths == 10
RankingMinimum == 1

(***************************************************************************)
(* The "required" arrays of the three schemas (lines 20, 31, 47, 60, 65,   *)
(* 95).                                                                    *)
(***************************************************************************)
UserRequired == {"username", "email", "password_hash", "created_at"}
ProfileRequired == {}
GameRequired == {"players", "moves", "status", "created_at"}
MoveRequired == {"player", "position", "timestamp"}
PositionRequired == {"row", "col"}
EntryRequired ==
    {"user_id", "games_played", "games_won", "games_drawn", "games_lost",
     "win_rate", "ranking"}

(***************************************************************************)
(* The users validator, lines 17-37.                                       *)
(***************************************************************************)
ProfileSchema(v) ==
    /\ v.bson = "object"
    /\ Required(v.o, ProfileRequired)
    /\ TypeIf(v.o, "avatar", {"string", "null"})

\* The users validator with username left out of "required".
UsersValidatorUsernameOptional(d) ==
    /\ Required(d, UserRequired \ {"username"})
    /\ TypeIf(d, "username", {"string"})
    /\ TypeIf(d, "email", {"string"})
    /\ (Has(d, "email") => EmailPattern(d.email.s))
    /\ TypeIf(d, "password_hash", {"string"})
    /\ (Has(d, "profile") => ProfileSchema(d.profile))
    /\ TypeIf(d, "created_at", {"date"})
    /\ TypeIf(d, "last_login", {"date", "null"})

UsersValidator(d) ==
    /\ Required(d, UserRequired)
    /\ TypeIf(d, "username", {"string"})
    /\ TypeIf(d, "email", {"string"})
    /\ (Has(d, "email") => EmailPattern(d.email.s))
    /\ TypeIf(d, "password_hash", {"string"})
    /\ (Has(d, "profile") => ProfileSchema(d.profile))
    /\ TypeIf(d, "created_at", {"date"})
    /\ TypeIf(d, "last_login", {"date", "null"})

(***************************************************************************)
(* The games validator, lines 44-85.                                       *)
(***************************************************************************)
\* The players schema with maxItems left out.
PlayersSchemaNoMaxItems(v) ==
    /\ v.bson = "array"
    /\ Len(v.a) >= PlayersMinItems
    /\ \A i \in 1..Len(v.a) : v.a[i].bson = "objectId"

PlayersSchema(v) ==
    /\ v.bson = "array"
    /\ Len(v.a) >= PlayersMinItems
    /\ Len(v.a) <= PlayersMaxItems
    /\ \A i \in 1..Len(v.a) : v.a[i].bson = "objectId"

\* A coordinate schema with maximum left out.
CoordSchemaNoMaximum(v, lo, hi) ==
    /\ v.bson = "int"
    /\ v.i >= lo

CoordSchema(v, lo, hi) ==
    /\ v.bson = "int"
    /\ v.i >= lo
    /\ v.i <= hi

PositionSchema(v) ==
    /\ v.bson = "object"
    /\ Required(v.o, PositionRequired)
    /\ (Has(v.o, "row") => CoordSchema(v.o.row, RowMinimum, RowMaximum))
    /\ (Has(v.o, "col") => CoordSchema(v.o.col, ColMinimum, ColMaximum))

MoveSchema(v) ==
    /\ v.bson = "object"
    /\ Required(v.o, MoveRequired)
    /\ TypeIf(v.o, "player", {"objectId"})
    /\ (Has(v.o, "position") => PositionSchema(v.o.position))
    /\ TypeIf(v.o, "timestamp", {"date"})

MovesSchema(v) ==
    /\ v.bson = "array"
    /\ \A i \in 1..Len(v.a) : MoveSchema(v.a[i])

StatusEnum == {"ongoing", "win", "draw", "abandoned"}

StatusSchema(v) ==
    /\ v.bson = "string"
    /\ v.s \in StatusEnum

\* The games validator with winner listed in "required".
GamesValidatorWinnerRequired(d) ==
    /\ Required(d, GameRequired \cup {"winner"})
    /\ (Has(d, "players") => PlayersSchema(d.players))
    /\ (Has(d, "moves") => MovesSchema(d.moves))
    /\ (Has(d, "status") => StatusSchema(d.status))
    /\ TypeIf(d, "winner", {"objectId", "null"})
    /\ TypeIf(d, "created_at", {"date"})
    /\ TypeIf(d, "completed_at", {"date", "null"})

GamesValidator(d) ==
    /\ Required(d, GameRequired)
    /\ (Has(d, "players") => PlayersSchema(d.players))
    /\ (Has(d, "moves") => MovesSchema(d.moves))
    /\ (Has(d, "status") => StatusSchema(d.status))
    /\ TypeIf(d, "winner", {"objectId", "null"})
    /\ TypeIf(d, "created_at", {"date"})
    /\ TypeIf(d, "completed_at", {"date", "null"})

(***************************************************************************)
(* The leaderboards validator, lines 92-106.                               *)
(***************************************************************************)
CounterSchema(v) ==
    /\ v.bson = "int"
    /\ v.i >= CounterMinimum

WinRateSchema(v) ==
    /\ v.bson = "double"
    /\ v.tenths >= WinRateMinimumTenths
    /\ v.tenths <= WinRateMaximumTenths

RankingSchema(v) ==
    /\ v.bson = "int"
    /\ v.i >= RankingMinimum

LeaderboardsValidator(d) ==
    /\ Required(d, EntryRequired)
    /\ TypeIf(d, "user_id", {"objectId"})
    /\ (Has(d, "games_played") => CounterSchema(d.games_played))
    /\ (Has(d, "games_won") => CounterSchema(d.games_won))
    /\ (Has(d, "games_drawn") => CounterSchema(d.games_drawn))
    /\ (Has(d, "games_lost") => CounterSchema(d.games_lost))
    /\ (Has(d, "win_rate") => WinRateSchema(d.win_rate))
    /\ (Has(d, "ranking") => RankingSchema(d.ranking))

Validates(validator, d) ==
    CASE validator = "users" -> UsersValidator(d)
      [] validator = "games" -> GamesValidator(d)
      [] validator = "leaderboards" -> LeaderboardsValidator(d)

(***************************************************************************)
(* The database server's side of the calls the script makes.               *)
(***************************************************************************)
CollNames == {"users", "games", "leaderboards"}

CollectionExists(name) == \E c \in collections : c.name = name

Docs(coll) ==
    CASE coll = "users" -> users
      [] coll = "games" -> games
      [] coll = "leaderboards" -> leaderboards

\* An index key: the value a document has under each field of the key, a
\* missing field counting as null.
KeyValue(d, key) ==
    [i \in 1..Len(key) |-> IF Has(d, key[i].field) THEN d[key[i].field] ELSE Null]

HasDuplicates(docs, key) ==
    \E i, j \in 1..Len(docs) :
        i < j /\ KeyValue(docs[i], key) = KeyValue(docs[j], key)

\* Every "required" array of the schema handed to createCollection(name).
RequiredArrays(name) ==
    CASE name = "users" -> {UserRequired, ProfileRequired}
      [] name = "games" -> {GameRequired, MoveRequired, PositionRequired}
      [] name = "leaderboards" -> {EntryRequired}

\* The server parses the validator before it creates anything: a parser
\* that follows JSON Schema draft 4 rejects an empty "required" array.
SchemaParses(name) ==
    emptyRequiredOk \/ \A r \in RequiredArrays(name) : r # {}

\* createCollection that rejects every existing name.
CreateCollectionRejectsExisting(name) ==
    /\ SchemaParses(name)
    /\ ~CollectionExists(name)

\* db.createCollection(name, {validator}): creating a name that exists is
\* rejected (NamespaceExists), except that a server with create-if-absent
\* semantics accepts it as a no-op when the options are the same.
CreateCollectionSucceeds(name) ==
    /\ SchemaParses(name)
    /\ \/ ~CollectionExists(name)
       \/ createIfAbsent /\ [name |-> name, validator |-> name] \in collections

CollectionsAfterCreate(name) ==
    collections \cup {[name |-> name, validator |-> name]}

Index(coll, key, unique) == [coll |-> coll, key |-> key, unique |-> unique]

\* collection.createIndex(key, {unique}): an index that exists is a no-op;
\* a unique index cannot be built over documents that share a key.
CreateIndexSucceeds(coll, key, unique) ==
    \/ Index(coll, key, unique) \in indexes
    \/ ~(unique /\ HasDuplicates(Docs(coll), key))

IndexesAfterCreate(coll, key, unique) ==
    indexes \cup {Index(coll, key, unique)}

\* createIndex on a collection that does not exist creates it, unvalidated.
CollectionsAfterIndex(coll) ==
    IF CollectionExists(coll)
    THEN collections
    ELSE collections \cup {[name |-> coll, validator |-> "none"]}

Asc(f) == [field |-> f, dir |-> 1]
Desc(f) == [field |-> f, dir |-> -1]

(***************************************************************************)
(* initializeSchema, lines 14-112: each call is awaited, so the next one   *)
(* is issued only when it has returned; nothing catches a rejection, so a  *)
(* failed call ends the run.                                               *)
(***************************************************************************)
PrintStep == 10

\* What a call asks of the server, as the run's log records it.
CreateCollectionCall(name) == [op |-> "createCollection", coll |-> name]
CreateIndexCall(coll, key, unique) ==
    [op |-> "createIndex", coll |-> coll, key |-> key, unique |-> unique]
PrintCall == [op |-> "print"]

\* A run that leaves out the call after the second one.
AfterSuccessSkip(k) == IF k = 2 THEN 4 ELSE k + 1

\* A run that catches a rejection and goes on with the next call.
AfterFailureContinue(k) == k + 1

\* await: the statement after a call runs once the call has succeeded.
AfterSuccess(k) == k + 1

\* No try/catch: a rejected call ends the run.
AfterFailure(k) == 0

\* What becomes of a call on the wire: it is answered, it is lost before
\* it reaches the server, or the server acts and its answer is lost.
Deliveries == IF faulty THEN {"answered", "lost", "answerLost"} ELSE {"answered"}

Call(k, call, succeeds, collectionsAfter, indexesAfter) ==
    /\ \E delivery \in Deliveries :
         /\ IF delivery # "lost" /\ succeeds
            THEN /\ collections' = collectionsAfter
                 /\ indexes' = indexesAfter
            ELSE UNCHANGED dbVars
         /\ IF delivery = "answered" /\ succeeds
            THEN /\ pc' = AfterSuccess(k)
                 /\ log' = Append(log, [call |-> call, ok |-> TRUE])
                 /\ UNCHANGED status
            ELSE /\ pc' = AfterFailure(k)
                 /\ log' = Append(log, [call |-> call, ok |-> FALSE])
                 /\ status' = IF AfterFailure(k) = 0 THEN "failed" ELSE status
    /\ UNCHANGED <<serverVars, docVars, runs, faulty, prevStatus, prevLog,
                   printed, afterFirst>>

CreateCollection(k, name) ==
    Call(k, CreateCollectionCall(name), CreateCollectionSucceeds(name),
         CollectionsAfterCreate(name), indexes)

CreateIndex(k, coll, key, unique) ==
    Call(k, CreateIndexCall(coll, key, unique),
         CreateIndexSucceeds(coll, key, unique), CollectionsAfterIndex(coll),
         IndexesAfterCreate(coll, key, unique))

\* line 116: the script calls initializeSchema(db).
Start(connections) ==
    /\ pc = 0
    /\ runs < MaxRuns
    /\ runs' = runs + 1
    /\ pc' = 1
    /\ prevStatus' = status
    /\ prevLog' = log
    /\ status' = "running"
    /\ log' = <<>>
    /\ faulty' \in connections
    /\ UNCHANGED <<serverVars, dbVars, docVars, printed, afterFirst>>

\* A run over a connection that may or may not drop calls.
StartRun == Start(BOOLEAN)

\* A run over a connection that drops no call.
StartReliableRun == Start({FALSE})

\* The email index built without {unique: true}.
IndexUsersEmailNotUnique ==
    /\ pc = 3
    /\ CreateIndex(3, "users", <<Asc("email")>>, FALSE)

\* The games indexes requested before the games collection is created.
CreateGamesIndexFirst ==
    /\ pc = 4
    /\ CreateIndex(4, "games", <<Asc("players")>>, FALSE)

\* The ranking index built without {unique: true}.
IndexLeaderboardsRankingNotUnique ==
    /\ pc = 8
    /\ CreateIndex(8, "leaderboards", <<Asc("ranking")>>, FALSE)

\* line 16
CreateUsers ==
    /\ pc = 1
    /\ CreateCollection(1, "users")

\* line 39
IndexUsersUsername ==
    /\ pc = 2
    /\ CreateIndex(2, "users", <<Asc("username")>>, TRUE)

\* line 40
IndexUsersEmail ==
    /\ pc = 3
    /\ CreateIndex(3, "users", <<Asc("email")>>, TRUE)

\* line 43
CreateGames ==
    /\ pc = 4
    /\ CreateCollection(4, "games")

\* line 87
IndexGamesPlayers ==
    /\ pc = 5
    /\ CreateIndex(5, "games", <<Asc("players")>>, FALSE)

\* line 88
IndexGamesStatusCreated ==
    /\ pc = 6
    /\ CreateIndex(6, "games", <<Asc("status"), Desc("created_at")>>, FALSE)

\* line 91
CreateLeaderboards ==
    /\ pc = 7
    /\ CreateCollection(7, "leaderboards")

\* line 108
IndexLeaderboardsRanking ==
    /\ pc = 8
    /\ CreateIndex(8, "leaderboards", <<Asc("ranking")>>, TRUE)

\* line 109
IndexLeaderboardsUserId ==
    /\ pc = 9
    /\ CreateIndex(9, "leaderboards", <<Asc("user_id")>>, TRUE)

\* line 111: print(...), then the function returns.
PrintDone ==
    /\ pc = PrintStep
    /\ printed' = printed + 1
    /\ log' = Append(log, [call |-> PrintCall, ok |-> TRUE])
    /\ status' = "done"
    /\ pc' = 0
    /\ afterFirst' = IF runs = 1
                     THEN [set |-> TRUE, collections |-> collections,
                           indexes |-> indexes]
                     ELSE afterFirst
    /\ UNCHANGED <<serverVars, dbVars, docVars, runs, faulty, prevStatus,
                   prevLog>>

Init ==
    /\ createIfAbsent \in BOOLEAN
    /\ emptyRequiredOk \in BOOLEAN
    /\ collections = {}
    /\ indexes = {}
    /\ users = <<>>
    /\ games = <<>>
    /\ leaderboards = <<>>
    /\ pc = 0
    /\ runs = 0
    /\ faulty = FALSE
    /\ status = "none"
    /\ prevStatus = "none"
    /\ prevLog = <<>>
    /\ log = <<>>
    /\ printed = 0
    /\ afterFirst = [set |-> FALSE, collections |-> {}, indexes |-> {}]
    /\ last = [coll |-> "none", ok |-> FALSE, doc |-> Null, before |-> <<>>]

Next ==
    \/ StartRun
    \/ CreateUsers
    \/ IndexUsersUsername
    \/ IndexUsersEmail
    \/ CreateGames
    \/ IndexGamesPlayers
    \/ IndexGamesStatusCreated
    \/ CreateLeaderboards
    \/ IndexLeaderboardsRanking
    \/ IndexLeaderboardsUserId
    \/ PrintDone

Spec == Init /\ [][Next]_vars

\* The runtime keeps executing the run it started: every call returns and
\* the statement after an await is run.
Step ==
    \/ CreateUsers
    \/ IndexUsersUsername
    \/ IndexUsersEmail
    \/ CreateGames
    \/ IndexGamesPlayers
    \/ IndexGamesStatusCreated
    \/ CreateLeaderboards
    \/ IndexLeaderboardsRanking
    \/ IndexLeaderboardsUserId
    \/ PrintDone

LiveSpec == Init /\ [][Next]_vars /\ WF_vars(Step)

(***************************************************************************)
(* What the specification expects of a run.                                *)
(***************************************************************************)
ExpectedCalls ==
    << CreateCollectionCall("users"),
       CreateIndexCall("users", <<Asc("username")>>, TRUE),
       CreateIndexCall("users", <<Asc("email")>>, TRUE),
       CreateCollectionCall("games"),
       CreateIndexCall("games", <<Asc("players")>>, FALSE),
       CreateIndexCall("games", <<Asc("status"), Desc("created_at")>>, FALSE),
       CreateCollectionCall("leaderboards"),
       CreateIndexCall("leaderboards", <<Asc("ranking")>>, TRUE),
       CreateIndexCall("leaderboards", <<Asc("user_id")>>, TRUE),
       PrintCall >>

ExpectedCollections == {[name |-> n, validator |-> n] : n \in CollNames}

ExpectedIndexes ==
    { Index("users", <<Asc("username")>>, TRUE),
      Index("users", <<Asc("email")>>, TRUE),
      Index("games", <<Asc("players")>>, FALSE),
      Index("games", <<Asc("status"), Desc("created_at")>>, FALSE),
      Index("leaderboards", <<Asc("ranking")>>, TRUE),
      Index("leaderboards", <<Asc("user_id")>>, TRUE) }

Provisioned ==
    /\ collections = ExpectedCollections
    /\ indexes = ExpectedIndexes

InEffect(call) ==
    CASE call.op = "createCollection" ->
            [name |-> call.coll, validator |-> call.coll] \in collections
      [] call.op = "createIndex" ->
            Index(call.coll, call.key, call.unique) \in indexes
      [] OTHER -> TRUE

AllOk(l) == \A i \in 1..Len(l) : l[i].ok

\* The second run, on a usable connection, after a first run that completed.
SecondRunAfterComplete == runs = 2 /\ afterFirst.set /\ ~faulty

SecondRunClean ==
    /\ AllOk(log)
    /\ status # "failed"
    /\ collections = afterFirst.collections
    /\ indexes = afterFirst.indexes
    /\ pc = 0 => /\ status = "done"
                 /\ Len(log) = PrintStep
                 /\ printed = 2

(* C1: a second run, on a usable connection, after a first run that       *)
(* completed has no failing call, prints the completion message again and  *)
(* leaves the collections, validators and indexes as the first run left    *)
(* them.                                                                   *)
C1_SecondRunNoError == SecondRunAfterComplete => SecondRunClean

\* Where C1 stands and where it falls: the second run is clean on a server
\* whose createCollection accepts an existing collection with the same
\* options; on a server that rejects an existing name its first call,
\* createCollection('users'), fails, nothing else is issued and the
\* message is not printed again.
SecondRunByServer ==
    SecondRunAfterComplete =>
        IF createIfAbsent
        THEN SecondRunClean
        ELSE /\ log = <<[call |-> CreateCollectionCall("users"), ok |-> FALSE]>>
                    \/ (log = <<>> /\ pc = 1)
             /\ printed = 1
             /\ collections = afterFirst.collections
             /\ indexes = afterFirst.indexes

(* C2: once a call of the run has failed, it is the last entry of the      *)
(* run's log (no later call, no retry, no print), the run is over and      *)
(* failed, every earlier call succeeded and its collection or index is     *)
(* still there, and this run did not print the completion message.         *)
C2_FailureAborts ==
    \A i \in 1..Len(log) :
        ~log[i].ok =>
            /\ i = Len(log)
            /\ status = "failed"
            /\ pc = 0
            /\ \A j \in 1..(i - 1) : log[j].ok /\ InEffect(log[j].call)
            /\ \A j \in 1..Len(log) : log[j].call # PrintCall
            /\ printed < runs

C2_Witness ==
    /\ runs = 1
    /\ status = "failed"
    /\ Len(log) = 5
    /\ ~log[5].ok
    /\ ~InEffect(log[5].call)
    /\ \A j \in 1..4 : InEffect(log[j].call)

\* The re-run, on a usable connection, of a run that failed part-way.
RerunAfterPartial ==
    /\ prevStatus = "failed"
    /\ Len(prevLog) >= 2
    /\ status # "none"
    /\ ~faulty

Completed ==
    /\ status = "done"
    /\ Provisioned
    /\ printed >= 1
    /\ Len(log) = PrintStep
    /\ log[PrintStep].call = PrintCall

(* C3: the re-run, on a usable connection, of a run that failed part-way,  *)
(* once it is over, has completed: the three collections and six indexes   *)
(* exist and the completion message is printed.                            *)
C3_RerunEndsCompleted == (RerunAfterPartial /\ pc = 0) => Completed

\* Where C3 stands: on a server whose createCollection accepts an existing
\* collection with the same options the re-run eventually completes.
RerunConvergesIfCreateIfAbsent ==
    (createIfAbsent /\ RerunAfterPartial /\ status = "running") ~> Completed

(* C4: the calls of a run are issued in the fixed order users, games,      *)
(* leaderboards, each collection before its two indexes, each call only    *)
(* after the one before it succeeded, and the message is printed only      *)
(* after the nine calls, with the three collections and six indexes there. *)
C4_FixedOrder ==
    /\ Len(log) <= PrintStep
    /\ \A i \in 1..Len(log) : log[i].call = ExpectedCalls[i]
    /\ \A i \in 1..(Len(log) - 1) : log[i].ok
    /\ \A i \in 1..Len(log) :
          log[i].call = PrintCall => /\ i = PrintStep
                                     /\ AllOk(log)
                                     /\ Provisioned
    /\ status = "done" => Len(log) = PrintStep /\ Provisioned
    /\ printed <= runs

C4_Witness ==
    /\ runs = 1
    /\ status = "done"
    /\ printed = 1
    /\ Len(log) = PrintStep

(***************************************************************************)
(* A client's inserts, into the collections the script has created.  The   *)
(* server checks the document against the collection's validator, then     *)
(* against every unique index of the collection; a rejected insert stores  *)
(* nothing.                                                                *)
(***************************************************************************)
ValidatorOf(coll) ==
    (CHOOSE c \in collections : c.name = coll).validator

PassesValidator(coll, d) ==
    ValidatorOf(coll) = "none" \/ Validates(ValidatorOf(coll), d)

UniqueKeys(coll) == {ix.key : ix \in {x \in indexes : x.coll = coll /\ x.unique}}

KeyTaken(docs, key, d) ==
    \E i \in 1..Len(docs) : KeyValue(docs[i], key) = KeyValue(d, key)

Accepts(coll, d) ==
    /\ PassesValidator(coll, d)
    /\ \A key \in UniqueKeys(coll) : ~KeyTaken(Docs(coll), key, d)

Attempt(coll, d) ==
    /\ CollectionExists(coll)
    /\ Len(Docs(coll)) < MaxDocs
    /\ last' = [coll |-> coll, ok |-> Accepts(coll, d), doc |-> d,
                before |-> Docs(coll)]

Stored(coll, d) == IF Accepts(coll, d) THEN Append(Docs(coll), d) ELSE Docs(coll)

(***************************************************************************)
(* The documents a client tries.                                           *)
(***************************************************************************)
EmailABCom == <<"a", "@", "b", ".", "c", "o", "m">>
EmailXYZ == <<"x", "@", "y", ".", "z">>
BadEmails ==
    { <<"a", "b", ".", "c">>,          \* no "@"
      <<"a", "@", "b", "c">>,          \* no "."
      <<"@", "b", ".", "c">>,          \* nothing before "@"
      <<"a", "@", "b", ".">> }         \* nothing after "."

User(name, email) ==
    [username |-> Str(name), email |-> Str(email), password_hash |-> Str("h"),
     created_at |-> Date(1)]

Alice == User("alice", EmailABCom)

\* d without field f.
Without(d, f) == [g \in DOMAIN d \ {f} |-> d[g]]

\* d with field f set to v.
With(d, f, v) == [g \in DOMAIN d \cup {f} |-> IF g = f THEN v ELSE d[g]]

GoodUsers ==
    {User(n, e) : n \in {"alice", "bob"}, e \in {EmailABCom, EmailXYZ}}
    \cup {With(With(Alice, "profile", Obj([avatar |-> Null])), "last_login", Null)}

BadUsers ==
    {Without(Alice, f) : f \in UserRequired}
    \cup {With(Alice, f, Int32(7)) : f \in {"username", "created_at"}}
    \cup {With(Alice, "email", Str(e)) : e \in BadEmails}
    \cup {With(Alice, "profile", Obj([avatar |-> Int32(7)])),
          With(Alice, "last_login", Str("yesterday"))}

UserDocs == GoodUsers \cup BadUsers

InsertUserFrom(docs) ==
    \E d \in docs :
        /\ Attempt("users", d)
        /\ users' = Stored("users", d)
        /\ UNCHANGED <<serverVars, dbVars, games, leaderboards, pc, runs,
                       faulty, status, prevStatus, prevLog, log, printed,
                       afterFirst>>

InsertUser == InsertUserFrom(UserDocs)

NextUsers == StartReliableRun \/ Step \/ InsertUser

SpecUsers == Init /\ [][NextUsers]_vars

Move(r, c) ==
    Obj([player |-> Oid(1),
         position |-> Obj([row |-> Int32(r), col |-> Int32(c)]),
         timestamp |-> Date(2)])

Game(players, moves) ==
    [players |-> Arr(players), moves |-> Arr(moves), status |-> Str("ongoing"),
     created_at |-> Date(1)]

TwoPlayers == <<Oid(1), Oid(2)>>

NewGame == Game(TwoPlayers, <<>>)

WonGame ==
    [players |-> Arr(TwoPlayers), moves |-> Arr(<<Move(0, 0), Move(2, 2)>>),
     status |-> Str("win"), winner |-> Oid(1), created_at |-> Date(1),
     completed_at |-> Date(3)]

GoodGames == {NewGame, Game(TwoPlayers, <<Move(0, 2), Move(2, 0)>>), WonGame}

OutOfRangeMoves == {Move(3, 0), Move(-1, 0), Move(0, 3), Move(0, -1)}

BadGames ==
    {Game(ps, <<>>) : ps \in {<<>>, <<Oid(1)>>, <<Oid(1), Oid(2), Oid(3)>>,
                              <<Oid(1), Str("bob")>>}}
    \cup {Without(NewGame, "players"), Without(NewGame, "moves")}
    \cup {Game(TwoPlayers, <<m>>) : m \in OutOfRangeMoves}
    \cup {Game(TwoPlayers, <<Move(1, 1), m>>) : m \in OutOfRangeMoves}
    \cup {Game(TwoPlayers, <<Obj([player |-> Oid(1),
                                  position |-> Obj([row |-> Dbl(10),
                                                    col |-> Int32(1)]),
                                  timestamp |-> Date(2)])>>),
          Game(TwoPlayers, <<Obj([player |-> Oid(1),
                                  position |-> Obj([col |-> Int32(1)]),
                                  timestamp |-> Date(2)])>>),
          With(NewGame, "status", Str("paused"))}

GameDocs == GoodGames \cup BadGames

InsertGameFrom(docs) ==
    \E d \in docs :
        /\ Attempt("games", d)
        /\ games' = Stored("games", d)
        /\ UNCHANGED <<serverVars, dbVars, users, leaderboards, pc, runs,
                       faulty, status, prevStatus, prevLog, log, printed,
                       afterFirst>>

InsertGame == InsertGameFrom(GameDocs)

NextGames == StartReliableRun \/ Step \/ InsertGame

SpecGames == Init /\ [][NextGames]_vars

Entry(u, r) ==
    [user_id |-> Oid(u), games_played |-> Int32(2), games_won |-> Int32(1),
     games_drawn |-> Int32(0), games_lost |-> Int32(1), win_rate |-> Dbl(5),
     ranking |-> Int32(r)]

GoodEntries == {Entry(u, r) : u \in {1, 2}, r \in {1, 2}}

BadEntries ==
    {Entry(1, 0),
     With(Entry(1, 1), "ranking", Dbl(10)),
     With(Entry(1, 1), "win_rate", Dbl(11)),
     With(Entry(1, 1), "win_rate", Dbl(-1)),
     With(Entry(1, 1), "games_won", Int32(-1)),
     With(Entry(1, 1), "user_id", Str("alice")),
     Without(Entry(1, 1), "user_id"),
     Without(Entry(1, 1), "ranking")}

EntryDocs == GoodEntries \cup BadEntries

InsertLeaderboard ==
    \E d \in EntryDocs :
        /\ Attempt("leaderboards", d)
        /\ leaderboards' = Stored("leaderboards", d)
        /\ UNCHANGED <<serverVars, dbVars, users, games, pc, runs, faulty,
                       status, prevStatus, prevLog, log, printed, afterFirst>>

NextLeaderboards == StartReliableRun \/ Step \/ InsertLeaderboard

SpecLeaderboards == Init /\ [][NextLeaderboards]_vars

\* A run of initializeSchema has completed.
Initialized == printed >= 1

\* The end-to-end scenario: once the schema is initialized, a client of
\* users and games registers users and opens games.
ScenarioUsers ==
    {Alice, User("alice", EmailXYZ), User("bob", EmailXYZ),
     Without(Alice, "username")}

ScenarioGames == {NewGame, Game(<<Oid(1), Oid(2), Oid(3)>>, <<>>)}

ClientInsertUser ==
    /\ Initialized
    /\ InsertUserFrom(ScenarioUsers)

ClientInsertGame ==
    /\ Initialized
    /\ InsertGameFrom(ScenarioGames)

NextApp == StartReliableRun \/ Step \/ ClientInsertUser \/ ClientInsertGame

SpecApp == Init /\ [][NextApp]_vars

(***************************************************************************)
(* Claims about the inserts a client attempts once a run has completed.    *)
(***************************************************************************)
\* d and e both carry field f, with the same value.
SameField(d, e, f) == Has(d, f) /\ Has(e, f) /\ d[f] = e[f]

Distinct(docs, f) ==
    \A i, j \in 1..Len(docs) : i # j => ~SameField(docs[i], docs[j], f)

Clashes(docs, d, f) == \E i \in 1..Len(docs) : SameField(docs[i], d, f)

Rejected(coll) == ~last.ok /\ Docs(coll) = last.before

(* C5: after a completed run, no two stored users share a username and no  *)
(* two share an email, and an insert that repeats a stored username or     *)
(* email is rejected and leaves the users collection as it was.            *)
C5_UsersUnique ==
    Initialized =>
        /\ Distinct(users, "username")
        /\ Distinct(users, "email")
        /\ (/\ last.coll = "users"
            /\ \/ Clashes(last.before, last.doc, "username")
               \/ Clashes(last.before, last.doc, "email"))
           => Rejected("users")

C5_Witness ==
    /\ Initialized
    /\ Len(users) = 1
    /\ last.coll = "users"
    /\ UsersValidator(last.doc)
    /\ Clashes(last.before, last.doc, "email")
    /\ ~Clashes(last.before, last.doc, "username")
    /\ Rejected("users")

(* C6: after a completed run, no two stored leaderboard entries share a    *)
(* ranking and no two share a user_id, so the rankings order the entries   *)
(* strictly, and an insert that repeats either value is rejected and       *)
(* leaves the leaderboards collection as it was.                           *)
C6_LeaderboardsUnique ==
    Initialized =>
        /\ Distinct(leaderboards, "ranking")
        /\ Distinct(leaderboards, "user_id")
        /\ \A i, j \in 1..Len(leaderboards) :
              i # j => \/ leaderboards[i].ranking.i < leaderboards[j].ranking.i
                       \/ leaderboards[j].ranking.i < leaderboards[i].ranking.i
        /\ (/\ last.coll = "leaderboards"
            /\ \/ Clashes(last.before, last.doc, "ranking")
               \/ Clashes(last.before, last.doc, "user_id"))
           => Rejected("leaderboards")

C6_Witness ==
    /\ Initialized
    /\ Len(leaderboards) = 1
    /\ last.coll = "leaderboards"
    /\ LeaderboardsValidator(last.doc)
    /\ Clashes(last.before, last.doc, "ranking")
    /\ ~Clashes(last.before, last.doc, "user_id")
    /\ Rejected("leaderboards")

(* C7: after a completed run, an insert of a user document that lacks      *)
(* username, email, password_hash or created_at is rejected and leaves the *)
(* users collection as it was.                                             *)
C7_UserRequiredFields ==
    (Initialized /\ last.coll = "users" /\ ~Required(last.doc, UserRequired))
        => Rejected("users")

C7_Witness ==
    /\ Initialized
    /\ last.coll = "users"
    /\ last.doc = Without(Alice, "username")
    /\ Rejected("users")

\* The number of items of d's players array; -1 when d has no such array.
PlayerCount(d) ==
    IF Has(d, "players") /\ d.players.bson = "array"
    THEN Len(d.players.a)
    ELSE -1

(* C8: after a completed run, every stored game has a players array of     *)
(* exactly two object ids, and an insert whose players array has fewer or  *)
(* more than two items is rejected.                                        *)
C8_ExactlyTwoPlayers ==
    Initialized =>
        /\ \A i \in 1..Len(games) :
              /\ PlayerCount(games[i]) = 2
              /\ \A k \in 1..2 : games[i].players.a[k].bson = "objectId"
        /\ (last.coll = "games" /\ PlayerCount(last.doc) \in {0, 1, 3})
           => Rejected("games")

C8_Witness ==
    /\ Initialized
    /\ last.coll = "games"
    /\ PlayerCount(last.doc) = 3
    /\ Rejected("games")
    /\ Len(games) >= 1

\* The moves of d; none when d has no moves array.
MovesOf(d) ==
    IF Has(d, "moves") /\ d.moves.bson = "array" THEN d.moves.a ELSE <<>>

\* Coordinate f of move m is an integer outside 0..2.
OutOfRange(m, f) ==
    /\ m.bson = "object"
    /\ Has(m.o, "position")
    /\ m.o.position.bson = "object"
    /\ Has(m.o.position.o, f)
    /\ m.o.position.o[f].bson = "int"
    /\ m.o.position.o[f].i \notin 0..2

\* Coordinate f of move m is an integer of 0..2.
InRange(m, f) ==
    /\ m.bson = "object"
    /\ Has(m.o, "position")
    /\ m.o.position.bson = "object"
    /\ Has(m.o.position.o, f)
    /\ m.o.position.o[f].bson = "int"
    /\ m.o.position.o[f].i \in 0..2

(* C9: after a completed run, every move of every stored game has row and  *)
(* col integers of 0..2, and an insert of a game with a move, at any       *)
(* index, whose row or col is below 0 or above 2 is rejected.              *)
C9_MovesOnBoard ==
    Initialized =>
        /\ \A i \in 1..Len(games) :
              \A k \in 1..Len(MovesOf(games[i])) :
                  /\ InRange(MovesOf(games[i])[k], "row")
                  /\ InRange(MovesOf(games[i])[k], "col")
        /\ (/\ last.coll = "games"
            /\ \E k \in 1..Len(MovesOf(last.doc)) :
                  \/ OutOfRange(MovesOf(last.doc)[k], "row")
                  \/ OutOfRange(MovesOf(last.doc)[k], "col"))
           => Rejected("games")

C9_Witness ==
    /\ Initialized
    /\ last.coll = "games"
    /\ Len(MovesOf(last.doc)) = 2
    /\ InRange(MovesOf(last.doc)[1], "row")
    /\ MovesOf(last.doc)[2].o.position.o.row = Int32(3)
    /\ Rejected("games")
    /\ \E i \in 1..Len(games) : Len(MovesOf(games[i])) = 2

(* C10: on an initialized database, the insert of a minimal well-formed    *)
(* user into an empty users collection is accepted, a second user with the *)
(* same username and another email is rejected, and the insert of a game   *)
(* with two players, no moves, status ongoing and a created_at is          *)
(* accepted.                                                               *)
C10_EndToEnd ==
    Initialized =>
        /\ (last.coll = "users" /\ last.doc = Alice /\ last.before = <<>>)
           => (last.ok /\ users = <<Alice>>)
        /\ (/\ last.coll = "users"
            /\ last.doc = User("alice", EmailXYZ)
            /\ last.before = <<Alice>>)
           => Rejected("users")
        /\ (last.coll = "games" /\ last.doc = NewGame)
           => (last.ok /\ games = Append(last.before, NewGame))

C10_Witness ==
    /\ Initialized
    /\ users = <<Alice>>
    /\ games = <<NewGame>>
    /\ last.coll = "users"
    /\ last.doc = User("alice", EmailXYZ)
    /\ Rejected("users")

====
